---- MODULE Spec2Model ----
(***************************************************************************)
(* Model of pkg/cloud/azure/actuators/cluster/actuator.go: the cluster     *)
(* Actuator's Reconcile and Delete, statement by statement.  The external  *)
(* collaborators (actuators.NewScope, the certificates, resources and      *)
(* network services) are nondeterministic: each invocation returns nil or  *)
(* one of a small set of errors.  Calls for distinct clusters interleave.  *)
(***************************************************************************)
EXTENDS Integers, Sequences, FiniteSets, TLC

\* ---------------------------------------------------------------- bounds
NumClusters == 2      \* clusters handed to the actuator by the controller
MaxCalls == 2         \* Reconcile/Delete calls per cluster
NumErrs == 2          \* distinct errors a collaborator may return

Clusters == 1..NumClusters
ClusterName(c) == <<"cluster", c>>          \* cluster.Name

\* ---------------------------------------------------------------- errors
Nil == [kind |-> "nil"]
Pending == [kind |-> "pending"]             \* the call has not returned yet
\* A collaborator's error is a plain error or an error that already wraps
\* one as its cause.
PlainErrs == {[kind |-> "collaborator", id |-> i] : i \in 1..NumErrs}
CollabErrs ==
  PlainErrs \cup {[kind |-> "withMessage", format |-> "collaborator", args |-> <<>>,
                   cause |-> e] : e \in PlainErrs}
Outcomes == {Nil} \cup CollabErrs           \* what a collaborator returns

\* fmt's %+v applied to an error: its text, not the error value.
FormatV(err) == <<"text of", err>>

\* github.com/pkg/errors.Errorf: a fresh error, message only, no cause.
Errorf(format, err) ==
  [kind |-> "fundamental", format |-> format, args |-> <<FormatV(err)>>]

\* Variant of Wrapf that formats the error into the message and drops it.
WrapfDropCause(err, format, name) ==
  [kind |-> "fundamental", format |-> format, args |-> <<name, FormatV(err)>>]

\* github.com/pkg/errors.Wrapf: message plus the original error as cause.
Wrapf(err, format, name) ==
  [kind |-> "withMessage", format |-> format, args |-> <<name>>, cause |-> err]

\* github.com/pkg/errors.Cause: follows the causes until an error that has
\* none, the innermost error of a wrapped error.
RECURSIVE Cause(_)
Cause(e) == IF e.kind = "withMessage" THEN Cause(e.cause) ELSE e

\* A 64-bit time.Duration as little-endian base-1000 digits (5e9 exceeds
\* 32-bit integers); MulDuration(x, k, 0) is x * k.
RECURSIVE MulDuration(_, _, _)
MulDuration(x, k, carry) ==
  IF x = <<>>
    THEN IF carry = 0 THEN <<>>
         ELSE <<carry % 1000>> \o MulDuration(<<>>, k, carry \div 1000)
    ELSE LET p == Head(x) * k + carry
         IN  <<p % 1000>> \o MulDuration(Tail(x), k, p \div 1000)

\* Variant of RequeueAfter with one factor of 1000 missing.
RequeueAfterMillis == MulDuration(MulDuration(<<5>>, 1000, 0), 1000, 0)

\* 5 * 1000 * 1000 * 1000 nanoseconds.
RequeueAfter ==
  MulDuration(MulDuration(MulDuration(<<5>>, 1000, 0), 1000, 0), 1000, 0)

\* &controllerError.RequeueAfterError{RequeueAfter: ...}
RequeueAfterError == [kind |-> "RequeueAfterError", RequeueAfter |-> RequeueAfter]

\* ---------------------------------------------------------------- state
VARIABLES
  pc,          \* per cluster: the statement its current call is at
  op,          \* per cluster: "none", "Reconcile" or "Delete"
  callNo,      \* per cluster: number of calls started so far
  scope,       \* per cluster: the call's local variable `scope`
  scopeErr,    \* per cluster: the call's local `err` set by NewScope
  deferred,    \* per cluster: `defer scope.Close()` has been executed
  inv,         \* per cluster: service invocations of the current call
  closes,      \* per cluster: scopes closed by the current call, in order
  ret,         \* per cluster: value of the executed return statement
  scopeState,  \* every scope ever constructed: unallocated, open or closed
  log,         \* per cluster: klog lines of the current call
  prev         \* per cluster: observer, what the previous call did

vars == <<pc, op, callNo, scope, scopeErr, deferred, inv, closes, ret, scopeState, log, prev>>

NoScope == [cluster |-> 0, call |-> 0]
ScopeIds == [cluster : Clusters, call : 1..MaxCalls]

\* What a finished call did: its operation and, per service invocation in
\* order, the operation invoked and whether it succeeded.
NoCall == [op |-> "none", steps |-> <<>>]
Summary(c) ==
  [op |-> op[c],
   steps |-> [i \in DOMAIN inv[c] |->
                [svc |-> inv[c][i].svc, ok |-> inv[c][i].err = Nil]]]

Init ==
  /\ pc = [c \in Clusters |-> "idle"]
  /\ op = [c \in Clusters |-> "none"]
  /\ callNo = [c \in Clusters |-> 0]
  /\ scope = [c \in Clusters |-> NoScope]
  /\ scopeErr = [c \in Clusters |-> Pending]
  /\ deferred = [c \in Clusters |-> FALSE]
  /\ inv = [c \in Clusters |-> <<>>]
  /\ closes = [c \in Clusters |-> <<>>]
  /\ ret = [c \in Clusters |-> Pending]
  /\ scopeState = [s \in ScopeIds |-> "unallocated"]
  /\ log = [c \in Clusters |-> <<>>]
  /\ prev = [c \in Clusters |-> NoCall]

\* ---------------------------------------------------------------- helpers
\* Variant of Enter that keeps progress between calls: a Reconcile that
\* follows a Reconcile failed at a step resumes at that step with the
\* earlier call's scope instead of starting over.
EnterResume(c, name) ==
  LET k == Len(inv[c])
      resume == /\ name = "Reconcile" /\ op[c] = "Reconcile"
                /\ k > 0 /\ inv[c][k].err # Nil
      steps == <<"Reconcile:ReconcileCertificates", "Reconcile:ReconcileResourceGroup",
                 "Reconcile:ReconcileNetwork", "Reconcile:ReconcileLoadBalancer">>
  IN
  /\ pc[c] \in {"idle", "returned"}
  /\ callNo[c] < MaxCalls
  /\ callNo' = [callNo EXCEPT ![c] = @ + 1]
  /\ op' = [op EXCEPT ![c] = name]
  /\ pc' = [pc EXCEPT ![c] = IF resume THEN steps[k] ELSE name \o ":NewScope"]
  /\ scope' = [scope EXCEPT ![c] = IF resume THEN @ ELSE NoScope]
  /\ scopeErr' = [scopeErr EXCEPT ![c] = IF resume THEN @ ELSE Pending]
  /\ deferred' = [deferred EXCEPT ![c] = IF resume THEN @ ELSE FALSE]
  /\ inv' = [inv EXCEPT ![c] = <<>>]
  /\ closes' = [closes EXCEPT ![c] = <<>>]
  /\ ret' = [ret EXCEPT ![c] = Pending]
  /\ log' = [log EXCEPT ![c] = <<<<"Infof", "Reconciling cluster %v", ClusterName(c)>>>>]
  /\ prev' = [prev EXCEPT ![c] = Summary(c)]
  /\ UNCHANGED scopeState

\* The controller invokes a new call: fresh locals, one klog.Infof line.
Enter(c, name) ==
  /\ pc[c] \in {"idle", "returned"}
  /\ callNo[c] < MaxCalls
  /\ callNo' = [callNo EXCEPT ![c] = @ + 1]
  /\ op' = [op EXCEPT ![c] = name]
  /\ pc' = [pc EXCEPT ![c] = name \o ":NewScope"]
  /\ scope' = [scope EXCEPT ![c] = NoScope]
  /\ scopeErr' = [scopeErr EXCEPT ![c] = Pending]
  /\ deferred' = [deferred EXCEPT ![c] = FALSE]
  /\ inv' = [inv EXCEPT ![c] = <<>>]
  /\ closes' = [closes EXCEPT ![c] = <<>>]
  /\ ret' = [ret EXCEPT ![c] = Pending]
  /\ log' = [log EXCEPT ![c] = <<<<"Infof", "Reconciling cluster %v", ClusterName(c)>>>>]
  /\ prev' = [prev EXCEPT ![c] = Summary(c)]
  /\ UNCHANGED scopeState

\* A return statement: the value is fixed, then deferred calls run.
Return(c, val) ==
  /\ ret' = [ret EXCEPT ![c] = val]
  /\ pc' = [pc EXCEPT ![c] = IF deferred[c] THEN "defer" ELSE "returned"]

\* The state of the scope a service works on; a nil scope has none.
ScopeStateOf(s) == IF s \in ScopeIds THEN scopeState[s] ELSE "nil"

\* One service method called on a service built from the call's scope.
Invoke(c, svc, arg, err) ==
  inv' = [inv EXCEPT ![c] = Append(@, [svc |-> svc, arg |-> arg,
                                        scope |-> scope[c],
                                        scopeState |-> ScopeStateOf(scope[c]),
                                        err |-> err])]

\* Variant of AcquireScope: scope.Close() called at once instead of deferred.
AcquireScopeNoDefer(c) ==
  LET s == [cluster |-> c, call |-> callNo[c]] IN
  /\ scope' = [scope EXCEPT ![c] = s]
  /\ scopeState' = [scopeState EXCEPT ![s] = "closed"]
  /\ closes' = [closes EXCEPT ![c] = Append(@, s)]
  /\ UNCHANGED deferred

\* Variant of AcquireScope: the deferred scope.Close() is missing.
AcquireScopeForgetClose(c) ==
  LET s == [cluster |-> c, call |-> callNo[c]] IN
  /\ scope' = [scope EXCEPT ![c] = s]
  /\ scopeState' = [scopeState EXCEPT ![s] = "open"]
  /\ UNCHANGED <<deferred, closes>>

\* scope, err := actuators.NewScope(...) with err == nil, then
\* `defer scope.Close()` and the service constructors.
AcquireScope(c) ==
  LET s == [cluster |-> c, call |-> callNo[c]] IN
  /\ scope' = [scope EXCEPT ![c] = s]
  /\ scopeState' = [scopeState EXCEPT ![s] = "open"]
  /\ deferred' = [deferred EXCEPT ![c] = TRUE]
  /\ UNCHANGED closes

\* ---------------------------------------------------------------- Reconcile
Reconcile(c) == Enter(c, "Reconcile")

\* Variant of ReconcileNewScope: the NewScope error is not checked.
ReconcileNewScopeIgnoreErr(c) ==
  /\ pc[c] = "Reconcile:NewScope"
  /\ \E err \in Outcomes :
       /\ scopeErr' = [scopeErr EXCEPT ![c] = err]
       /\ IF err # Nil
         THEN /\ pc' = [pc EXCEPT ![c] = "Reconcile:ReconcileCertificates"]
              /\ UNCHANGED <<scope, scopeState, deferred, closes, ret>>
         ELSE /\ AcquireScope(c)
              /\ pc' = [pc EXCEPT ![c] = "Reconcile:ReconcileCertificates"]
              /\ UNCHANGED ret
  /\ UNCHANGED <<prev, op, callNo, inv, log>>

ReconcileNewScope(c) ==
  /\ pc[c] = "Reconcile:NewScope"
  /\ \E err \in Outcomes :
       /\ scopeErr' = [scopeErr EXCEPT ![c] = err]
       /\ IF err # Nil
         THEN /\ Return(c, Errorf("failed to create scope: %+v", err))
              /\ UNCHANGED <<scope, scopeState, deferred, closes>>
         ELSE /\ AcquireScope(c)
              /\ pc' = [pc EXCEPT ![c] = "Reconcile:ReconcileCertificates"]
              /\ UNCHANGED ret
  /\ UNCHANGED <<prev, op, callNo, inv, log>>

\* Variant of ReconcileCertificates: the step's error is ignored.
ReconcileCertificatesSwallowErr(c) ==
  /\ pc[c] = "Reconcile:ReconcileCertificates"
  /\ \E err \in Outcomes :
       /\ Invoke(c, "certificates.ReconcileCertificates", "", err)
       /\ pc' = [pc EXCEPT ![c] = "Reconcile:ReconcileResourceGroup"]
       /\ UNCHANGED ret
  /\ UNCHANGED <<prev, op, callNo, scope, scopeErr, deferred, closes, scopeState, log>>

\* Variant of ReconcileCertificates: the resource-group step is skipped.
ReconcileCertificatesThenNetwork(c) ==
  /\ pc[c] = "Reconcile:ReconcileCertificates"
  /\ \E err \in Outcomes :
       /\ Invoke(c, "certificates.ReconcileCertificates", "", err)
       /\ IF err # Nil
            THEN Return(c, Wrapf(err, "failed to reconcile certificates for cluster %q", ClusterName(c)))
            ELSE /\ pc' = [pc EXCEPT ![c] = "Reconcile:ReconcileNetwork"]
                 /\ UNCHANGED ret
  /\ UNCHANGED <<prev, op, callNo, scope, scopeErr, deferred, closes, scopeState, log>>

ReconcileCertificates(c) ==
  /\ pc[c] = "Reconcile:ReconcileCertificates"
  /\ \E err \in Outcomes :
       /\ Invoke(c, "certificates.ReconcileCertificates", "", err)
       /\ IF err # Nil
            THEN Return(c, Wrapf(err, "failed to reconcile certificates for cluster %q", ClusterName(c)))
            ELSE /\ pc' = [pc EXCEPT ![c] = "Reconcile:ReconcileResourceGroup"]
                 /\ UNCHANGED ret
  /\ UNCHANGED <<prev, op, callNo, scope, scopeErr, deferred, closes, scopeState, log>>

ReconcileResourceGroup(c) ==
  /\ pc[c] = "Reconcile:ReconcileResourceGroup"
  /\ \E err \in Outcomes :
       /\ Invoke(c, "resources.ReconcileResourceGroup", "", err)
       /\ IF err # Nil
            THEN Return(c, Wrapf(err, "failed to reconcile resource group for cluster %q", ClusterName(c)))
            ELSE /\ pc' = [pc EXCEPT ![c] = "Reconcile:ReconcileNetwork"]
                 /\ UNCHANGED ret
  /\ UNCHANGED <<prev, op, callNo, scope, scopeErr, deferred, closes, scopeState, log>>

\* Variant of ReconcileNetwork: a failed step ends the call with nil.
ReconcileNetworkReturnNil(c) ==
  /\ pc[c] = "Reconcile:ReconcileNetwork"
  /\ \E err \in Outcomes :
       /\ Invoke(c, "network.ReconcileNetwork", "", err)
       /\ IF err # Nil
            THEN Return(c, Nil)
            ELSE /\ pc' = [pc EXCEPT ![c] = "Reconcile:ReconcileLoadBalancer"]
                 /\ UNCHANGED ret
  /\ UNCHANGED <<prev, op, callNo, scope, scopeErr, deferred, closes, scopeState, log>>

ReconcileNetwork(c) ==
  /\ pc[c] = "Reconcile:ReconcileNetwork"
  /\ \E err \in Outcomes :
       /\ Invoke(c, "network.ReconcileNetwork", "", err)
       /\ IF err # Nil
            THEN Return(c, Wrapf(err, "failed to reconcile network for cluster %q", ClusterName(c)))
            ELSE /\ pc' = [pc EXCEPT ![c] = "Reconcile:ReconcileLoadBalancer"]
                 /\ UNCHANGED ret
  /\ UNCHANGED <<prev, op, callNo, scope, scopeErr, deferred, closes, scopeState, log>>

\* Variant of ReconcileLoadBalancer: the final return is not nil.
ReconcileLoadBalancerNeverNil(c) ==
  /\ pc[c] = "Reconcile:ReconcileLoadBalancer"
  /\ \E err \in Outcomes :
       /\ Invoke(c, "network.ReconcileLoadBalancer", "api", err)
       /\ IF err # Nil
            THEN Return(c, Wrapf(err, "failed to reconcile load balancers for cluster %q", ClusterName(c)))
            ELSE Return(c, [kind |-> "fundamental", format |-> "not implemented", args |-> <<>>])
  /\ UNCHANGED <<prev, op, callNo, scope, scopeErr, deferred, closes, scopeState, log>>

ReconcileLoadBalancer(c) ==
  /\ pc[c] = "Reconcile:ReconcileLoadBalancer"
  /\ \E err \in Outcomes :
       /\ Invoke(c, "network.ReconcileLoadBalancer", "api", err)
       /\ IF err # Nil
            THEN Return(c, Wrapf(err, "failed to reconcile load balancers for cluster %q", ClusterName(c)))
            ELSE Return(c, Nil)
  /\ UNCHANGED <<prev, op, callNo, scope, scopeErr, deferred, closes, scopeState, log>>

\* ---------------------------------------------------------------- Delete
Delete(c) == Enter(c, "Delete")

\* Variant of DeleteNewScope: a NewScope failure is answered with a requeue.
DeleteNewScopeRequeue(c) ==
  /\ pc[c] = "Delete:NewScope"
  /\ \E err \in Outcomes :
       /\ scopeErr' = [scopeErr EXCEPT ![c] = err]
       /\ IF err # Nil
         THEN /\ Return(c, RequeueAfterError)
              /\ UNCHANGED <<scope, scopeState, deferred, closes>>
         ELSE /\ AcquireScope(c)
              /\ pc' = [pc EXCEPT ![c] = "Delete:DeleteResourceGroup"]
              /\ UNCHANGED ret
  /\ UNCHANGED <<prev, op, callNo, inv, log>>

\* Variant of DeleteNewScope: `defer scope.Close()` stands before the error
\* check, so Close also runs when NewScope failed.
DeleteNewScopeDeferFirst(c) ==
  /\ pc[c] = "Delete:NewScope"
  /\ \E err \in Outcomes :
       /\ scopeErr' = [scopeErr EXCEPT ![c] = err]
       /\ IF err # Nil
         THEN /\ ret' = [ret EXCEPT ![c] = Errorf("failed to create scope: %+v", err)]
              /\ pc' = [pc EXCEPT ![c] = "defer"]
              /\ deferred' = [deferred EXCEPT ![c] = TRUE]
              /\ UNCHANGED <<scope, scopeState, closes>>
         ELSE /\ AcquireScope(c)
              /\ pc' = [pc EXCEPT ![c] = "Delete:DeleteResourceGroup"]
              /\ UNCHANGED ret
  /\ UNCHANGED <<prev, op, callNo, inv, log>>

DeleteNewScope(c) ==
  /\ pc[c] = "Delete:NewScope"
  /\ \E err \in Outcomes :
       /\ scopeErr' = [scopeErr EXCEPT ![c] = err]
       /\ IF err # Nil
         THEN /\ Return(c, Errorf("failed to create scope: %+v", err))
              /\ UNCHANGED <<scope, scopeState, deferred, closes>>
         ELSE /\ AcquireScope(c)
              /\ pc' = [pc EXCEPT ![c] = "Delete:DeleteResourceGroup"]
              /\ UNCHANGED ret
  /\ UNCHANGED <<prev, op, callNo, inv, log>>

\* Variant of DeleteResourceGroup: load balancers are deleted first.
DeleteResourceGroupAndLoadBalancers(c) ==
  /\ pc[c] = "Delete:DeleteResourceGroup"
  /\ \E err \in Outcomes :
       /\ inv' = [inv EXCEPT ![c] =
                    Append(Append(@, [svc |-> "network.DeleteLoadBalancers", arg |-> "",
                                      scope |-> scope[c],
                                      scopeState |-> ScopeStateOf(scope[c]),
                                      err |-> Nil]),
                           [svc |-> "resources.DeleteResourceGroup", arg |-> "",
                            scope |-> scope[c],
                            scopeState |-> ScopeStateOf(scope[c]),
                            err |-> err])]
       /\ IF err # Nil
            THEN /\ log' = [log EXCEPT ![c] = Append(@, <<"Errorf", "Error deleting resource group: %v.", FormatV(err)>>)]
                 /\ Return(c, RequeueAfterError)
            ELSE /\ Return(c, Nil)
                 /\ UNCHANGED log
  /\ UNCHANGED <<prev, op, callNo, scope, scopeErr, deferred, closes, scopeState>>

\* Variant of DeleteResourceGroup: a failed deletion is returned as a
\* wrapped error, not as a requeue signal.
DeleteResourceGroupTerminal(c) ==
  /\ pc[c] = "Delete:DeleteResourceGroup"
  /\ \E err \in Outcomes :
       /\ Invoke(c, "resources.DeleteResourceGroup", "", err)
       /\ IF err # Nil
            THEN /\ log' = [log EXCEPT ![c] = Append(@, <<"Errorf", "Error deleting resource group: %v.", FormatV(err)>>)]
                 /\ Return(c, Wrapf(err, "failed to delete resource group for cluster %q", ClusterName(c)))
            ELSE /\ Return(c, Nil)
                 /\ UNCHANGED log
  /\ UNCHANGED <<prev, op, callNo, scope, scopeErr, deferred, closes, scopeState>>

DeleteResourceGroup(c) ==
  /\ pc[c] = "Delete:DeleteResourceGroup"
  /\ \E err \in Outcomes :
       /\ Invoke(c, "resources.DeleteResourceGroup", "", err)
       /\ IF err # Nil
            THEN /\ log' = [log EXCEPT ![c] = Append(@, <<"Errorf", "Error deleting resource group: %v.", FormatV(err)>>)]
                 /\ Return(c, RequeueAfterError)
            ELSE /\ Return(c, Nil)
                 /\ UNCHANGED log
  /\ UNCHANGED <<prev, op, callNo, scope, scopeErr, deferred, closes, scopeState>>

\* ---------------------------------------------------------------- defer
\* Variant of ScopeClose: Close tears down a session shared by all scopes.
ScopeCloseShared(c) ==
  /\ pc[c] = "defer"
  /\ closes' = [closes EXCEPT ![c] = Append(@, scope[c])]
  /\ scopeState' = [s \in ScopeIds |->
                      IF scopeState[s] = "open" THEN "closed" ELSE scopeState[s]]
  /\ pc' = [pc EXCEPT ![c] = "returned"]
  /\ UNCHANGED <<prev, op, callNo, scope, scopeErr, deferred, inv, ret, log>>

\* The deferred scope.Close() runs after the return statement and before
\* the caller receives the result.
ScopeClose(c) ==
  /\ pc[c] = "defer"
  /\ closes' = [closes EXCEPT ![c] = Append(@, scope[c])]
  /\ scopeState' = [scopeState EXCEPT ![scope[c]] = "closed"]
  /\ pc' = [pc EXCEPT ![c] = "returned"]
  /\ UNCHANGED <<prev, op, callNo, scope, scopeErr, deferred, inv, ret, log>>

Next ==
  \E c \in Clusters :
    \/ Reconcile(c)
    \/ ReconcileNewScope(c)
    \/ ReconcileCertificates(c)
    \/ ReconcileResourceGroup(c)
    \/ ReconcileNetwork(c)
    \/ ReconcileLoadBalancer(c)
    \/ Delete(c)
    \/ DeleteNewScope(c)
    \/ DeleteResourceGroup(c)
    \/ ScopeClose(c)

Spec == Init /\ [][Next]_vars

\* ---------------------------------------------------------------- deletion retried
\* The controller deleting clusters: it invokes Delete for a cluster and
\* invokes it again after every requeue signal.  Scope construction
\* succeeds, and resource-group deletion fails finitely often: not in the
\* last of the MaxCalls calls.
ControllerDelete(c) ==
  /\ pc[c] = "idle" \/ (pc[c] = "returned" /\ ret[c].kind = "RequeueAfterError")
  /\ Delete(c)

RetryNewScope(c) ==
  /\ DeleteNewScope(c)
  /\ scopeErr'[c] = Nil

RetryDeleteResourceGroup(c) ==
  /\ DeleteResourceGroup(c)
  /\ callNo[c] = MaxCalls => inv'[c][1].err = Nil

RetryScopeClose(c) == ScopeClose(c)

RetryNext ==
  \E c \in Clusters :
    \/ ControllerDelete(c)
    \/ RetryNewScope(c)
    \/ RetryDeleteResourceGroup(c)
    \/ RetryScopeClose(c)

\* Every started call runs to its end and the controller keeps its promise
\* to call again.
RetrySpec ==
  Init /\ [][RetryNext]_vars
       /\ \A c \in Clusters :
            /\ WF_vars(ControllerDelete(c))
            /\ WF_vars(RetryNewScope(c))
            /\ WF_vars(RetryDeleteResourceGroup(c))
            /\ WF_vars(RetryScopeClose(c))

\* ---------------------------------------------------------------- properties
Returned(c) == pc[c] = "returned"          \* the caller holds the result
Exited(c) == pc[c] \in {"defer", "returned"}  \* a return statement has run
ScopeFailed(c) == scopeErr[c] \in CollabErrs
ScopeAcquired(c) == scopeErr[c] = Nil
IsError(e) == e.kind \in {"fundamental", "withMessage", "RequeueAfterError"}
Failed(c) == {i \in DOMAIN inv[c] : inv[c][i].err # Nil}
ReconcileServices ==
  {"certificates.ReconcileCertificates", "resources.ReconcileResourceGroup",
   "network.ReconcileNetwork", "network.ReconcileLoadBalancer"}

\* C1: when NewScope fails, the Reconcile or Delete call has returned a
\* non-nil error to its caller and has invoked no service operation.
C1_ScopeFailureNoService ==
  \A c \in Clusters :
    ScopeFailed(c) =>
      /\ Returned(c)
      /\ IsError(ret[c])
      /\ inv[c] = <<>>

\* Both a Reconcile and a Delete call have returned after a NewScope failure.
C1_Witness ==
  \E c, d \in Clusters :
    /\ op[c] = "Reconcile" /\ ScopeFailed(c) /\ Returned(c)
    /\ op[d] = "Delete" /\ ScopeFailed(d) /\ Returned(d)

\* C2: Reconcile is fail-fast without rollback: a failed step is the last
\* invocation of its call, the call has executed its return statement with
\* an error whose message names the cluster and belongs to that step alone
\* (two failed calls carry the same message exactly when the same step
\* failed), and only reconciliation operations were ever invoked.
C2_FailFastNoRollback ==
  \A c \in Clusters :
    op[c] = "Reconcile" =>
      /\ \A i \in DOMAIN inv[c] : inv[c][i].svc \in ReconcileServices
      /\ \A i \in Failed(c) :
           /\ i = Len(inv[c])
           /\ Exited(c)
           /\ IsError(ret[c])
           /\ ret[c].kind # "RequeueAfterError"
           /\ \E j \in DOMAIN ret[c].args : ret[c].args[j] = ClusterName(c)
           /\ \A d \in Clusters :
                (op[d] = "Reconcile" /\ Failed(d) # {} /\ Exited(d)) =>
                  ((ret[d].format = ret[c].format)
                     <=> (inv[d][Len(inv[d])].svc = inv[c][i].svc))

\* Certificate reconciliation failed in one returned call and a later step
\* failed in another.
C2_Witness ==
  \E c, d \in Clusters :
    /\ op[c] = "Reconcile" /\ Returned(c) /\ Failed(c) = {1}
    /\ op[d] = "Reconcile" /\ Returned(d) /\ Failed(d) = {3}

\* C3: a Reconcile call whose scope construction and four steps all
\* succeeded returns nil.
C3_FullSuccessReturnsNil ==
  \A c \in Clusters :
    (/\ op[c] = "Reconcile"
     /\ ScopeAcquired(c)
     /\ {inv[c][i].svc : i \in DOMAIN inv[c]} = ReconcileServices
     /\ Failed(c) = {}) => (Exited(c) /\ ret[c] = Nil)

\* A Reconcile call has returned to its caller after four successful steps.
C3_Witness ==
  \E c \in Clusters :
    /\ op[c] = "Reconcile" /\ Returned(c) /\ ScopeAcquired(c)
    /\ Len(inv[c]) = 4 /\ Failed(c) = {}

\* C4: after the resource-group deletion of a Delete call, the call returns
\* a RequeueAfterError of exactly 5,000,000,000 ns (base-1000 digits
\* 5|000|000|000, least significant first) if the deletion failed, whatever
\* the error was, and nil if it succeeded.
C4_DeleteRequeueOrNil ==
  \A c \in Clusters :
    (op[c] = "Delete" /\ ScopeAcquired(c) /\ inv[c] # <<>>) =>
      /\ Exited(c)
      /\ IF Failed(c) # {}
           THEN /\ ret[c].kind = "RequeueAfterError"
                /\ ret[c].RequeueAfter = <<0, 0, 0, 5>>
           ELSE ret[c] = Nil

\* Two Delete calls have returned a requeue signal for two different
\* deletion errors.
C4_Witness ==
  \E c, d \in Clusters :
    /\ c # d
    /\ op[c] = "Delete" /\ Returned(c) /\ Failed(c) # {}
    /\ op[d] = "Delete" /\ Returned(d) /\ Failed(d) # {}
    /\ inv[c][1].err # inv[d][1].err
    /\ ret[c].kind = "RequeueAfterError"

\* C5 as stated: every call that has returned to its caller invoked Close
\* exactly once, whichever exit path it took.
C5_CloseOncePerCall ==
  \A c \in Clusters : Returned(c) => Len(closes[c]) = 1

\* C5 amended: a call never invokes Close more than once, and every call
\* that has returned after acquiring its scope invoked Close exactly once,
\* on that scope, whether a step failed or the call succeeded; a call whose
\* NewScope failed invoked it zero times.
C5_CloseOncePerAcquiredScope ==
  \A c \in Clusters :
    /\ Len(closes[c]) <= 1
    /\ (Returned(c) /\ ScopeAcquired(c)) => closes[c] = <<scope[c]>>
    /\ (Returned(c) /\ ScopeFailed(c)) => closes[c] = <<>>

\* A Reconcile call that failed at a step and a Delete call that succeeded
\* have both returned with their scope closed once.
C5_Witness ==
  \E c, d \in Clusters :
    /\ op[c] = "Reconcile" /\ Returned(c) /\ Failed(c) # {} /\ Len(closes[c]) = 1
    /\ op[d] = "Delete" /\ Returned(d) /\ ScopeAcquired(d) /\ Failed(d) = {}
    /\ Len(closes[d]) = 1

\* The order of the steps of Reconcile, each with its argument.
C6_Order ==
  << <<"certificates.ReconcileCertificates", "">>,
     <<"resources.ReconcileResourceGroup", "">>,
     <<"network.ReconcileNetwork", "">>,
     <<"network.ReconcileLoadBalancer", "api">> >>

\* C6: the invocations of a Reconcile call are a prefix of certificates,
\* resource group, network, load balancer "api" (so each step is invoked at
\* most once and only after all earlier ones), and every invocation but
\* the last returned success.
C6_FixedStepOrder ==
  \A c \in Clusters :
    op[c] = "Reconcile" =>
      /\ Len(inv[c]) <= Len(C6_Order)
      /\ \A i \in DOMAIN inv[c] :
           /\ <<inv[c][i].svc, inv[c][i].arg>> = C6_Order[i]
           /\ i < Len(inv[c]) => inv[c][i].err = Nil

\* A Reconcile call has invoked all four steps, the load balancer last.
C6_Witness ==
  \E c \in Clusters :
    /\ op[c] = "Reconcile" /\ Len(inv[c]) = 4
    /\ inv[c][4].svc = "network.ReconcileLoadBalancer" /\ inv[c][4].arg = "api"

\* C7: a Delete call invokes nothing but resource-group deletion, and that
\* at most once, whether it succeeds or fails.
C7_DeleteOnlyResourceGroup ==
  \A c \in Clusters :
    op[c] = "Delete" =>
      /\ Len(inv[c]) <= 1
      /\ \A i \in DOMAIN inv[c] : inv[c][i].svc = "resources.DeleteResourceGroup"

\* One Delete call has returned after a failed deletion and another after a
\* successful one.
C7_Witness ==
  \E c, d \in Clusters :
    /\ op[c] = "Delete" /\ Returned(c) /\ Failed(c) = {1}
    /\ op[d] = "Delete" /\ Returned(d) /\ Len(inv[d]) = 1 /\ Failed(d) = {}

\* The collaborator error that made the call fail, if any.
CollabFailure(c) ==
  IF ScopeFailed(c) THEN {scopeErr[c]} ELSE {inv[c][i].err : i \in Failed(c)}

\* The errors an error wraps, directly or through further wrappers.
RECURSIVE Wrapped(_)
Wrapped(e) ==
  IF e.kind = "withMessage" THEN {e.cause} \cup Wrapped(e.cause) ELSE {}

\* C8 as stated: a call in which NewScope or a service operation failed
\* returns a non-nil result that wraps the collaborator's error, keeping it
\* as a cause.
C8_AllErrorsWrapped ==
  \A c \in Clusters :
    (Exited(c) /\ CollabFailure(c) # {}) =>
      /\ IsError(ret[c])
      /\ CollabFailure(c) \subseteq Wrapped(ret[c])

\* C8 amended: a call in which NewScope or a service operation failed
\* returns a non-nil result.  For a failed step of Reconcile the result
\* keeps the collaborator's error as its direct cause, so that errors.Cause
\* of the result is the innermost cause of that error (the error itself
\* only when it wraps nothing).  For a NewScope failure it
\* is a new error without a cause whose message carries the formatted text
\* of the collaborator's error.  For a failed resource-group deletion it is
\* a RequeueAfterError that carries neither; the error text is only logged.
C8_ErrorsNeverSwallowed ==
  \A c \in Clusters :
    (Exited(c) /\ CollabFailure(c) # {}) =>
      /\ IsError(ret[c])
      /\ ScopeFailed(c) =>
           /\ ret[c].kind = "fundamental"
           /\ ret[c].args = <<FormatV(scopeErr[c])>>
      /\ (ScopeAcquired(c) /\ op[c] = "Reconcile") =>
           /\ ret[c].kind = "withMessage"
           /\ ret[c].cause = inv[c][Len(inv[c])].err
           /\ Cause(ret[c]) = Cause(inv[c][Len(inv[c])].err)
           /\ Cause(ret[c]) \in PlainErrs
      /\ (ScopeAcquired(c) /\ op[c] = "Delete") =>
           /\ ret[c] = RequeueAfterError
           /\ \E i \in DOMAIN log[c] :
                log[c][i] = <<"Errorf", "Error deleting resource group: %v.",
                              FormatV(inv[c][1].err)>>

\* A Reconcile step failed with an error that has a cause of its own, and a
\* failed NewScope or resource-group deletion has been returned from.
C8_Witness ==
  \E c, d \in Clusters :
    /\ op[c] = "Reconcile" /\ Returned(c) /\ Failed(c) # {}
    /\ inv[c][Len(inv[c])].err \in CollabErrs \ PlainErrs
    /\ Cause(ret[c]) # inv[c][Len(inv[c])].err
    /\ Returned(d) /\ CollabFailure(d) # {}
    /\ (ScopeFailed(d) \/ op[d] = "Delete")

\* C9: Reconcile returns only nil or a terminal error, never a requeue
\* signal; Delete returns a requeue signal exactly when its scope was
\* acquired and the resource-group deletion failed, and a terminal error
\* when NewScope failed.
C9_RequeueOnlyOnDeleteFailure ==
  \A c \in Clusters :
    Exited(c) =>
      /\ op[c] = "Reconcile" => ret[c].kind \in {"nil", "fundamental", "withMessage"}
      /\ op[c] = "Delete" =>
           /\ (ret[c].kind = "RequeueAfterError")
                <=> (ScopeAcquired(c) /\ Failed(c) # {})
           /\ ScopeFailed(c) => ret[c].kind = "fundamental"

\* A Delete call returned a requeue signal, and another Delete call whose
\* NewScope failed returned a terminal error.
C9_Witness ==
  \E c, d \in Clusters :
    /\ op[c] = "Delete" /\ Returned(c) /\ ret[c].kind = "RequeueAfterError"
    /\ op[d] = "Delete" /\ Returned(d) /\ ScopeFailed(d)

\* C10: in a call that acquired its scope, every service operation ran on
\* the call's scope while it was open, the scope is closed only once the
\* return statement has run (hence after the last invocation), and the
\* caller never holds the result while the scope is still open.
C10_ReleaseAfterLastUseBeforeReturn ==
  \A c \in Clusters :
    ScopeAcquired(c) =>
      /\ \A i \in DOMAIN inv[c] :
           /\ inv[c][i].scope = scope[c]
           /\ inv[c][i].scopeState = "open"
      /\ ScopeStateOf(scope[c]) = "closed" <=> Returned(c)
      /\ closes[c] # <<>> => Returned(c)

\* A Reconcile call that invoked services has returned with its scope
\* closed, and a Delete call has its result fixed with the scope still open.
C10_Witness ==
  \E c, d \in Clusters :
    /\ op[c] = "Reconcile" /\ Returned(c) /\ Len(inv[c]) >= 2
    /\ ScopeStateOf(scope[c]) = "closed"
    /\ op[d] = "Delete" /\ pc[d] = "defer" /\ ScopeStateOf(scope[d]) = "open"

\* The steps of the previous call that succeeded, and the one that failed.
PrevSucceeded(c) == {i \in DOMAIN prev[c].steps : prev[c].steps[i].ok}
PrevFailed(c) == {i \in DOMAIN prev[c].steps : ~prev[c].steps[i].ok}
\* What the collaborators answered in the current call, and what the call
\* invoked.
OwnOutcomes(c) == <<scopeErr[c], [i \in DOMAIN inv[c] |-> inv[c][i].err]>>
OwnInvocations(c) == [i \in DOMAIN inv[c] |-> <<inv[c][i].svc, inv[c][i].arg>>]

\* C11: a Reconcile call that follows a Reconcile call failed at a step
\* starts over.  It works on a scope of its own, constructed by this call;
\* it invokes the steps from certificate reconciliation on in the fixed
\* order; and every step that succeeded in the earlier call is invoked
\* again unless this call has failed before reaching it.  For any two calls
\* of the same operation, whatever calls preceded them, equal outcomes of
\* their own collaborator invocations mean equal invocation sequences and
\* the same kind of result.
C11_NoProgressBetweenCalls ==
  /\ \A c \in Clusters :
       (op[c] = "Reconcile" /\ prev[c].op = "Reconcile" /\ PrevFailed(c) # {}) =>
         /\ scope[c] \in {NoScope, [cluster |-> c, call |-> callNo[c]]}
         /\ \A i \in DOMAIN inv[c] :
              /\ inv[c][i].scope = [cluster |-> c, call |-> callNo[c]]
              /\ OwnInvocations(c)[i] = C6_Order[i]
         /\ \A i \in PrevSucceeded(c) :
              (Exited(c) /\ i \notin DOMAIN inv[c]) =>
                (ScopeFailed(c) \/ \E j \in Failed(c) : j < i)
  /\ \A c, d \in Clusters :
       (op[c] = op[d] /\ OwnOutcomes(c) = OwnOutcomes(d)) =>
         /\ OwnInvocations(c) = OwnInvocations(d)
         /\ Exited(c) <=> Exited(d)
         /\ ret[c].kind = ret[d].kind

\* The second Reconcile call of a cluster, after a Reconcile call in which
\* certificates and resource group succeeded and the network step failed,
\* has invoked certificates, resource group and network again.
C11_Witness ==
  \E c \in Clusters :
    /\ op[c] = "Reconcile" /\ prev[c].op = "Reconcile"
    /\ PrevSucceeded(c) = {1, 2} /\ PrevFailed(c) = {3}
    /\ Len(inv[c]) >= 3
    /\ inv[c][1].svc = "certificates.ReconcileCertificates"

\* Everything a call holds: its position, locals, invocations and result.
Locals(c) ==
  <<pc[c], op[c], callNo[c], scope[c], scopeErr[c], deferred[c], inv[c],
    closes[c], ret[c], log[c], prev[c]>>

\* Every call works on the scope it constructed: the scope belongs to this
\* cluster and this call, no other call holds it, every service ran on it
\* while it was open, and the call closed nothing else.
C12_OwnScope ==
  \A c \in Clusters :
    /\ scope[c] # NoScope =>
         /\ scope[c] = [cluster |-> c, call |-> callNo[c]]
         /\ \A d \in Clusters \ {c} : scope[d] # scope[c]
    /\ \A i \in DOMAIN inv[c] :
         /\ inv[c][i].scope = scope[c]
         /\ inv[c][i].scopeState = "open"
    /\ \A i \in DOMAIN closes[c] : closes[c][i] = scope[c]

\* Every call proceeds as it would alone: in order, stopping at the first
\* failure, with the result its own outcomes give.
C12_AsAlone ==
  \A c \in Clusters :
    /\ \A i \in DOMAIN inv[c] :
         /\ op[c] = "Reconcile" => OwnInvocations(c)[i] = C6_Order[i]
         /\ op[c] = "Delete" => OwnInvocations(c) = << <<"resources.DeleteResourceGroup", "">> >>
         /\ i < Len(inv[c]) => inv[c][i].err = Nil
    /\ (ScopeFailed(c) \/ Failed(c) # {}) => (Exited(c) /\ ret[c] # Nil)
    /\ (Exited(c) /\ ScopeAcquired(c) /\ Failed(c) = {}) => ret[c] = Nil

\* One step belongs to one call: it changes the locals of one cluster only
\* and the state of no scope but that call's own, so releasing one call's
\* scope leaves every other scope as it was.
C12_StepIsLocal ==
  \A c \in Clusters :
    Locals(c)' # Locals(c) =>
      /\ \A d \in Clusters \ {c} : Locals(d)' = Locals(d)
      /\ \A s \in ScopeIds : s # scope'[c] => scopeState'[s] = scopeState[s]

\* C12: under every interleaving of calls for distinct clusters each call
\* uses and releases only the scope it created, a release touches no other
\* scope, and each call behaves as if it ran alone.
C12_CallsAreIsolated ==
  /\ [](C12_OwnScope /\ C12_AsAlone)
  /\ [][C12_StepIsLocal]_vars

\* Two calls are in flight at once, each with its own open scope: one has
\* fixed its result and is about to close its scope, the other, a second
\* call whose first scope is closed, is between two service invocations.
C12_Witness ==
  \E c, d \in Clusters :
    /\ c # d
    /\ pc[c] = "defer" /\ ScopeStateOf(scope[c]) = "open"
    /\ callNo[d] = 2 /\ scopeState[[cluster |-> d, call |-> 1]] = "closed"
    /\ pc[d] = "Reconcile:ReconcileNetwork" /\ ScopeStateOf(scope[d]) = "open"

IsTerminal(e) == e.kind \in {"fundamental", "withMessage"}

\* C13: when the controller calls Delete again after every requeue signal,
\* scope construction succeeds and resource-group deletion fails only
\* finitely often, every cluster's Delete eventually returns nil to its
\* caller; and a failed resource-group deletion never leaves the call with
\* a terminal error.
C13_DeleteEventuallySucceeds ==
  /\ \A c \in Clusters : <>(op[c] = "Delete" /\ Returned(c) /\ ret[c] = Nil)
  /\ [](\A c \in Clusters :
          (op[c] = "Delete" /\ Failed(c) # {}) => ~IsTerminal(ret[c]))

\* A Delete call has returned nil after an earlier Delete call of the same
\* cluster whose resource-group deletion failed.
C13_Witness ==
  \E c \in Clusters :
    /\ op[c] = "Delete" /\ Returned(c) /\ ret[c] = Nil
    /\ prev[c].op = "Delete" /\ PrevFailed(c) = {1}

\* The scopes the current call of a cluster has constructed.
Acquisitions(c) ==
  {s \in ScopeIds : s.cluster = c /\ s.call = callNo[c] /\ scopeState[s] # "unallocated"}

\* C14: releases match acquisitions.  A call constructs one scope if its
\* NewScope succeeded and none otherwise; it never closes more scopes than
\* it constructed; when it has returned it has closed exactly as many, and
\* none after a failed NewScope; no scope of an earlier call is left open.
C14_ReleasesMatchAcquisitions ==
  \A c \in Clusters :
    /\ Cardinality(Acquisitions(c)) = IF ScopeAcquired(c) THEN 1 ELSE 0
    /\ Len(closes[c]) <= Cardinality(Acquisitions(c))
    /\ Returned(c) => Len(closes[c]) = Cardinality(Acquisitions(c))
    /\ ScopeFailed(c) => (scope[c] = NoScope /\ closes[c] = <<>>)
    /\ \A s \in ScopeIds : (s.cluster = c /\ s.call < callNo[c]) => scopeState[s] # "open"

\* A cluster's first call constructed and closed a scope, and its second
\* call, a Delete, has returned after a failed NewScope without any Close.
C14_Witness ==
  \E c \in Clusters :
    /\ callNo[c] = 2 /\ scopeState[[cluster |-> c, call |-> 1]] = "closed"
    /\ op[c] = "Delete" /\ Returned(c) /\ ScopeFailed(c)
    /\ Acquisitions(c) = {} /\ closes[c] = <<>>

\* C15: a Reconcile call whose return value is nil constructed its scope and
\* invoked certificates, resource group, network and load balancer "api",
\* each exactly once and each successfully; and no Reconcile call ever
\* invokes resource-group deletion.
C15_NilOnlyOnFullSuccess ==
  \A c \in Clusters :
    op[c] = "Reconcile" =>
      /\ (Exited(c) /\ ret[c] = Nil) =>
           /\ ScopeAcquired(c)
           /\ OwnInvocations(c) = C6_Order
           /\ Failed(c) = {}
      /\ \A i \in DOMAIN inv[c] : inv[c][i].svc # "resources.DeleteResourceGroup"

\* One Reconcile call has returned nil and another has returned an error
\* after its load-balancer step, the last one, failed.
C15_Witness ==
  \E c, d \in Clusters :
    /\ op[c] = "Reconcile" /\ Returned(c) /\ ret[c] = Nil
    /\ op[d] = "Reconcile" /\ Returned(d) /\ Failed(d) = {4} /\ IsTerminal(ret[d])

TypeOK ==
  /\ \A c \in Clusters : callNo[c] \in 0..MaxCalls
  /\ \A c \in Clusters : op[c] \in {"none", "Reconcile", "Delete"}
  /\ \A s \in ScopeIds : scopeState[s] \in {"unallocated", "open", "closed"}
====
